---- MODULE Spec2Model ----
(***************************************************************************)
(* A model of the yt-dlp web front-end of src/src/main.rs: the handlers    *)
(* analyze_url (POST /analyze), download_format (POST /download) and       *)
(* show_files (GET /files), the child processes they run and the downloads *)
(* directory they share.                                                   *)
(*                                                                         *)
(* Rust values are modelled as follows.                                    *)
(*   Option<T>   None is <<>>, Some(x) is <<x>>.                            *)
(*   String      a TLA+ string; Utf8 gives the bytes of every string the   *)
(*               code orders or decodes (Rust orders Strings bytewise).    *)
(*   OsString    a sequence of bytes (a file name need not be UTF-8).      *)
(*   Vec<T>      a sequence.                                               *)
(***************************************************************************)
EXTENDS Integers, Sequences, FiniteSets, TLC

VARIABLES
    pc,           \* where each request's handler is: "idle", "waiting", "done"
    req,          \* the request each handler received
    cmd,          \* the Command each handler built
    child,        \* the child process of each handler
    spawns,       \* how many times each handler has started a child
    resp,         \* the response each handler returned
    dir,          \* downloads/: file name (bytes) -> what the entry is
    dirReadable   \* whether fs::read_dir("downloads") succeeds

vars == <<pc, req, cmd, child, spawns, resp, dir, dirReadable>>

-----------------------------------------------------------------------------
(* Bounds of the model.                                                    *)

\* The longest "formats" array the tool's JSON carries.
MaxFormats == 2

\* The number of requests the runtime serves at the same time.
NumReq == 2

\* The largest number of entries the downloads directory starts with.
MaxEntries == 3

Req == 1..NumReq

-----------------------------------------------------------------------------
(* Option<T>.                                                              *)

None == <<>>

Some(x) == <<x>>

unwrap_or(o, d) == IF o = None THEN d ELSE o[1]

\* Option::or: self when it is Some (whatever it holds), else the argument.
option_or(a, b) == IF a # None THEN a ELSE b

-----------------------------------------------------------------------------
(* Strings and their order.                                                *)

\* The UTF-8 bytes of the strings the code compares or decodes.
Utf8 ==
    ("" :> <<>>) @@
    ("Unknown" :> <<85, 110, 107, 110, 111, 119, 110>>) @@
    ("de" :> <<100, 101>>) @@
    ("en" :> <<101, 110>>) @@
    ("fr" :> <<102, 114>>) @@
    ("a.mp4" :> <<97, 46, 109, 112, 52>>) @@
    ("b.mp3" :> <<98, 46, 109, 112, 51>>) @@
    ("T.mp4" :> <<84, 46, 109, 112, 52>>) @@
    ("T.mp3" :> <<84, 46, 109, 112, 51>>) @@
    ("U.mp4" :> <<85, 46, 109, 112, 52>>) @@
    ("U.mp3" :> <<85, 46, 109, 112, 51>>) @@
    (".part" :> <<46, 112, 97, 114, 116>>) @@
    ("sub" :> <<115, 117, 98>>)

\* Lexicographic order of byte sequences: a <= b.
RECURSIVE BytesLeq(_, _)
BytesLeq(a, b) ==
    IF a = <<>> THEN TRUE
    ELSE IF b = <<>> THEN FALSE
    ELSE IF a[1] # b[1] THEN a[1] < b[1]
    ELSE BytesLeq(Tail(a), Tail(b))

\* Ord for String (str::cmp): the order of the UTF-8 bytes.
StrLeq(s, t) == BytesLeq(Utf8[s], Utf8[t])

\* Vec::contains.
contains(v, x) == \E i \in 1..Len(v) : v[i] = x

\* An element with the bytes it is ordered by.
Keyed(k, x) == [key |-> k, val |-> x]

\* The place of x in the sorted sequence v: after every element <= x, which
\* keeps equal elements in their order (slice::sort is stable).
RECURSIVE insert_sorted(_, _)
insert_sorted(v, x) ==
    IF v = <<>> THEN <<x>>
    ELSE IF BytesLeq(v[1].key, x.key) THEN <<v[1]>> \o insert_sorted(Tail(v), x)
    ELSE <<x>> \o v

\* slice::sort / sort_by on the elements' keys.
RECURSIVE sort_keyed(_)
sort_keyed(v) ==
    IF v = <<>> THEN <<>>
    ELSE insert_sorted(sort_keyed(SubSeq(v, 1, Len(v) - 1)), v[Len(v)])

\* sort left out (the list stays in first-seen order): the variant C5 is
\* checked against.
sort_omitted(v) == v

\* languages.sort(): Vec<String> in the order of Ord for String.
sort(v) ==
    LET s == sort_keyed([i \in 1..Len(v) |-> Keyed(Utf8[v[i]], v[i])])
    IN  [i \in 1..Len(s) |-> s[i].val]

\* Two decimal digits, zero padded.
pad2(n) == IF n < 10 THEN "0" \o ToString(n) ELSE ToString(n)

\* format!("{:.2} MB", size as f64 / 1024.0 / 1024.0): the quotient is exact
\* in f64 for these sizes, and the formatter rounds the exact value to
\* hundredths, a tie to the even digit. The whole megabytes are split off
\* first, which keeps the products small.
format_mb(size) ==
    LET unit == 1024 * 1024
        whole == size \div unit
        scaled == (size % unit) * 100
        q == scaled \div unit
        rem == scaled % unit
        h == IF 2 * rem > unit THEN q + 1
             ELSE IF 2 * rem < unit THEN q
             ELSE IF q % 2 = 0 THEN q ELSE q + 1
    IN  IF h = 100 THEN ToString(whole + 1) \o ".00 MB"
        ELSE ToString(whole) \o "." \o pad2(h) \o " MB"

-----------------------------------------------------------------------------
(* The tool's metadata output and its decoding.                            *)

\* One entry of the "formats" array as the tool prints it: every key may be
\* missing.
JsonFormat(format_id, ext, width, height, acodec, vcodec, filesize, filesize_approx, language) ==
    [format_id |-> format_id, ext |-> ext, width |-> width, height |-> height,
     acodec |-> acodec, vcodec |-> vcodec, filesize |-> filesize,
     filesize_approx |-> filesize_approx, language |-> language,
     format_note |-> None]

BaseId == Some("18")

\* The entries the analysis is run on: each group varies the fields one rule
\* of the classifier reads, over every combination of their values.
CodecFormats ==
    {JsonFormat(BaseId, None, None, None, a, v, None, None, None) :
        a \in {None, Some("none"), Some("mp4a")},
        v \in {None, Some("none"), Some("avc1")}}

SizeFormats ==
    {JsonFormat(BaseId, None, None, None, None, None, fs, fa, None) :
        fs \in {None, Some(0), Some(10485760)},
        fa \in {None, Some(0), Some(1)}}

LanguageFormats ==
    {JsonFormat(BaseId, None, None, None, None, None, None, None, l) :
        l \in {None, Some("en"), Some("fr"), Some("Unknown")}}

ResolutionFormats ==
    {JsonFormat(BaseId, Some("mp4"), w, h, None, Some("avc1"), None, None, None) :
        w \in {None, Some(1920)}, h \in {None, Some(1080)}}

IdFormats ==
    {JsonFormat(id, None, None, None, None, None, None, None, Some("de")) :
        id \in {None, Some("22")}}

JsonFormats ==
    CodecFormats \cup SizeFormats \cup LanguageFormats \cup ResolutionFormats
        \cup IdFormats

SeqsUpTo(S, n) == UNION {[1..k -> S] : k \in 0..n}

\* What the child process leaves on its standard output: text that is no
\* JSON, or one JSON object whose keys "title" and "formats" may be missing.
NotJson(text) == [kind |-> "text", text |-> text]

JsonObject(title, formats) ==
    [kind |-> "object", title |-> title, formats |-> formats]

Stdouts ==
    {NotJson(t) : t \in {"", "WARNING: unable to extract"}}
    \cup {JsonObject(t, None) : t \in {None, Some("T")}}
    \cup {JsonObject(t, Some(fs)) :
            t \in {None, Some("T")}, fs \in SeqsUpTo(JsonFormats, MaxFormats)}

\* Deserialize for YtDlpFormat: format_id is a String and must be there; the
\* Option fields take None when their key is missing.
format_from_json(j) ==
    IF j.format_id = None THEN [ok |-> FALSE]
    ELSE [ok |-> TRUE,
          value |-> [format_id |-> j.format_id[1], ext |-> j.ext,
                     width |-> j.width, height |-> j.height,
                     acodec |-> j.acodec, vcodec |-> j.vcodec,
                     filesize |-> j.filesize,
                     filesize_approx |-> j.filesize_approx,
                     language |-> j.language, format_note |-> j.format_note]]

\* serde_json::from_str::<YtDlpOutput>: title (String) and formats (Vec) carry
\* no serde default, so both keys must be there, and every entry must decode.
from_str(out) ==
    IF out.kind # "object" THEN [ok |-> FALSE]
    ELSE IF out.title = None \/ out.formats = None THEN [ok |-> FALSE]
    ELSE LET js == out.formats[1]
         IN  IF \E i \in 1..Len(js) : ~format_from_json(js[i]).ok
             THEN [ok |-> FALSE]
             ELSE [ok |-> TRUE,
                   value |-> [title |-> out.title[1],
                              formats |-> [i \in 1..Len(js) |->
                                              format_from_json(js[i]).value]]]

-----------------------------------------------------------------------------
(* The format classifier: the body of the loop of analyze_url.             *)

is_audio(f) == unwrap_or(f.acodec, "none") # "none"

is_video(f) == unwrap_or(f.vcodec, "none") # "none"

\* type_label with the second test on the audio codec instead of the video
\* codec: the variant C2 is checked against.
type_label_audio_first(f) ==
    IF is_audio(f) /\ is_video(f) THEN "Video+Audio"
    ELSE IF is_audio(f) THEN "Audio Only"
    ELSE "Video Only"

type_label(f) ==
    IF is_audio(f) /\ is_video(f) THEN "Video+Audio"
    ELSE IF is_video(f) THEN "Video Only"
    ELSE "Audio Only"

size_of(f) == unwrap_or(option_or(f.filesize, f.filesize_approx), 0)

size_str(f) ==
    IF size_of(f) > 0 THEN format_mb(size_of(f)) ELSE "Unknown"

resolution(f) ==
    IF f.width # None /\ f.height # None
    THEN ToString(f.width[1]) \o "x" \o ToString(f.height[1])
    ELSE "Audio"

lang_of(f) == unwrap_or(f.language, "Unknown")

\* The language list after one more descriptor.
push_language(languages, lang) ==
    IF lang # "Unknown" /\ ~contains(languages, lang)
    THEN Append(languages, lang)
    ELSE languages

DisplayFormat(f) ==
    [id |-> f.format_id,
     ext |-> unwrap_or(f.ext, ""),
     resolution |-> resolution(f),
     filesize |-> size_str(f),
     codecs |-> unwrap_or(f.vcodec, "none") \o "/" \o unwrap_or(f.acodec, "none"),
     language |-> lang_of(f),
     type_label |-> type_label(f),
     raw_height |-> unwrap_or(f.height, 0)]

\* display_formats with each row put in front of the earlier ones: the
\* variant C6 is checked against.
RECURSIVE display_formats_reversed(_)
display_formats_reversed(formats) ==
    IF formats = <<>> THEN <<>>
    ELSE <<DisplayFormat(formats[Len(formats)])>>
         \o display_formats_reversed(SubSeq(formats, 1, Len(formats) - 1))

\* The rows pushed by the loop, in the order of the descriptors.
RECURSIVE display_formats(_)
display_formats(formats) ==
    IF formats = <<>> THEN <<>>
    ELSE Append(display_formats(SubSeq(formats, 1, Len(formats) - 1)),
                DisplayFormat(formats[Len(formats)]))

\* The languages collected by the loop, in first-seen order.
RECURSIVE collect_languages(_)
collect_languages(formats) ==
    IF formats = <<>> THEN <<>>
    ELSE push_language(collect_languages(SubSeq(formats, 1, Len(formats) - 1)),
                       lang_of(formats[Len(formats)]))

-----------------------------------------------------------------------------
(* POST /analyze.                                                          *)

IndexTemplate(error) == [page |-> "index", error |-> error]

AnalyzeTemplate(url, title, formats, languages) ==
    [page |-> "analyze", url |-> url, title |-> title, formats |-> formats,
     languages |-> languages]

\* What Command::output() returns: Err when the binary cannot be started,
\* else the exit status and the two captured streams.
SpawnErr(e) == [spawned |-> FALSE, err |-> e]

Exited(code, stdout, stderr) ==
    [spawned |-> TRUE, code |-> code, stdout |-> stdout, stderr |-> stderr]

\* ExitStatus::success
success(o) == o.code = 0

AnalyzeOutputs ==
    {SpawnErr("No such file or directory (os error 2)")}
    \cup {Exited(0, s, "") : s \in Stdouts}
    \cup {Exited(1, s, e) :
            s \in {NotJson(""),
                   JsonObject(Some("T"),
                              Some(<<JsonFormat(BaseId, None, None, None, None,
                                                None, None, None, None)>>))},
            e \in {"", "ERROR: Unsupported URL"}}

Urls == {"https://example.org/t", "https://example.org/u"}

\* analyze_response without the test of the exit status: the variant C1 is
\* checked against.
analyze_response_unchecked_status(url, o) ==
    IF ~o.spawned THEN IndexTemplate(Some(o.err))
    ELSE LET meta == from_str(o.stdout)
         IN  IF ~meta.ok
             THEN IndexTemplate(Some("Failed to parse JSON from yt-dlp"))
             ELSE AnalyzeTemplate(url, meta.value.title,
                                  display_formats(meta.value.formats),
                                  sort(collect_languages(meta.value.formats)))

\* The match of analyze_url on the result of output().
analyze_response(url, o) ==
    IF ~o.spawned THEN IndexTemplate(Some(o.err))
    ELSE IF ~success(o) THEN IndexTemplate(Some("yt-dlp error: " \o o.stderr))
    ELSE LET meta == from_str(o.stdout)
         IN  IF ~meta.ok
             THEN IndexTemplate(Some("Failed to parse JSON from yt-dlp"))
             ELSE AnalyzeTemplate(url, meta.value.title,
                                  display_formats(meta.value.formats),
                                  sort(collect_languages(meta.value.formats)))

NoRequest == [route |-> "none"]

NoCommand == [program |-> "none"]

NoChild == [state |-> "none"]

Command(args) == [program |-> "./yt-dlp_linux", args |-> args]

\* The command line of analyze_url.
analyze_args(url) == <<"--dump-json", url>>

NoResponse == [page |-> "none"]

\* analyze_url: the handler blocks in output() until the child has exited,
\* then answers.
analyze_url(r) ==
    /\ pc[r] = "idle"
    /\ \E url \in Urls, o \in AnalyzeOutputs :
          /\ req' = [req EXCEPT ![r] = [route |-> "/analyze", url |-> url]]
          /\ cmd' = [cmd EXCEPT ![r] = Command(analyze_args(url))]
          /\ child' = [child EXCEPT ![r] = o]
          /\ resp' = [resp EXCEPT ![r] = analyze_response(url, o)]
    /\ spawns' = [spawns EXCEPT ![r] = @ + 1]
    /\ pc' = [pc EXCEPT ![r] = "done"]
    /\ UNCHANGED <<dir, dirReadable>>

\* The state after main() has created downloads/ and bound the listener.
InitServer ==
    /\ pc = [r \in Req |-> "idle"]
    /\ req = [r \in Req |-> NoRequest]
    /\ cmd = [r \in Req |-> NoCommand]
    /\ child = [r \in Req |-> NoChild]
    /\ spawns = [r \in Req |-> 0]
    /\ resp = [r \in Req |-> NoResponse]

InitAnalyze ==
    /\ InitServer
    /\ dir = <<>>
    /\ dirReadable = TRUE

NextAnalyze == analyze_url(1)

SpecAnalyze == InitAnalyze /\ [][NextAnalyze]_vars

-----------------------------------------------------------------------------
(* The downloads directory.                                                *)

\* A file name that is not UTF-8: the byte 0xFF, then ".mp4".
NonUtf8Name == <<255, 46, 109, 112, 52>>

\* The file names of the model, as the bytes the file system holds.
OsNames ==
    {Utf8["a.mp4"], Utf8["b.mp3"], Utf8[".part"], Utf8["sub"], NonUtf8Name}

\* What an entry is: whether path.is_file() holds for it (a regular file, or
\* a link to one, whose metadata can be read) and its length in bytes.
Directory == [is_file |-> FALSE, len |-> 4096]

RegularFile(len) == [is_file |-> TRUE, len |-> len]

EntryKinds == {Directory, RegularFile(0), RegularFile(52428800)}

\* The directories GET /files is run on.
Dirs ==
    UNION {[S -> EntryKinds] :
              S \in {T \in SUBSET OsNames : Cardinality(T) <= MaxEntries}}

\* Every sequence that holds each element of S once.
RECURSIVE Sequencings(_)
Sequencings(S) ==
    IF S = {} THEN {<<>>}
    ELSE UNION {{<<x>> \o o : o \in Sequencings(S \ {x})} : x \in S}

\* The orders in which read_dir may yield the entries of d (the order is the
\* file system's).
Orders(d) == Sequencings(DOMAIN d)

\* Whether the bytes are UTF-8. Only one- and two-byte sequences are decoded:
\* no name of the model holds the lead byte of a longer one.
RECURSIVE is_utf8(_)
is_utf8(b) ==
    IF b = <<>> THEN TRUE
    ELSE IF b[1] < 128 THEN is_utf8(Tail(b))
    ELSE IF b[1] \in 194..223 /\ Len(b) >= 2 /\ b[2] \in 128..191
         THEN is_utf8(SubSeq(b, 3, Len(b)))
    ELSE FALSE

\* OsString::into_string: Ok (here Some) with the String of these bytes when
\* they are UTF-8, else Err (here None).
into_string(os) ==
    IF is_utf8(os) THEN Some(CHOOSE s \in DOMAIN Utf8 : Utf8[s] = os) ELSE None

\* name.starts_with(".")
starts_with_dot(name) == Utf8[name] # <<>> /\ Utf8[name][1] = 46

\* Path::extension: the bytes after the last '.', when the name has one that
\* is not its first byte.
RECURSIVE extension(_)
extension(os) ==
    IF Len(os) <= 1 THEN None
    ELSE LET rest == extension(Tail(os))
         IN  IF rest # None THEN rest
             ELSE IF os[2] = 46 THEN Some(SubSeq(os, 3, Len(os)))
             ELSE None

\* mime_guess::from_path(..).first_or_octet_stream(), for the extensions of
\* the model.
mime_guess(os) ==
    IF extension(os) = Some(<<109, 112, 52>>) THEN "video/mp4"
    ELSE IF extension(os) = Some(<<109, 112, 51>>) THEN "audio/mpeg"
    ELSE "application/octet-stream"

\* mime.type_(): the part before the '/'.
mime_type_(mime) ==
    IF mime = "video/mp4" THEN "video"
    ELSE IF mime = "audio/mpeg" THEN "audio"
    ELSE "application"

media_type(mime) ==
    IF mime_type_(mime) = "video" THEN "Video"
    ELSE IF mime_type_(mime) = "audio" THEN "Audio"
    ELSE "Other"

FileInfo(name, os, entry) ==
    [name |-> name,
     media_type |-> media_type(mime_guess(os)),
     mime_type |-> mime_guess(os),
     size_mb |-> format_mb(entry.len)]

\* keeps_entry with the test for a leading "." left out: the variant C9 is
\* checked against.
keeps_entry_hidden_too(d, os) ==
    d[os].is_file /\ into_string(os) # None

\* The three nested tests of the loop of show_files.
keeps_entry(d, os) ==
    /\ d[os].is_file
    /\ into_string(os) # None
    /\ ~starts_with_dot(into_string(os)[1])

\* The files pushed by the loop of show_files over the entries in this order.
RECURSIVE scan(_, _)
scan(d, order) ==
    IF order = <<>> THEN <<>>
    ELSE LET os == order[Len(order)]
             before == scan(d, SubSeq(order, 1, Len(order) - 1))
         IN  IF keeps_entry(d, os)
             THEN Append(before, FileInfo(into_string(os)[1], os, d[os]))
             ELSE before

\* files.sort_by(|a, b| a.name.cmp(&b.name))
sort_by_name(files) ==
    LET s == sort_keyed([i \in 1..Len(files) |->
                            Keyed(Utf8[files[i].name], files[i])])
    IN  [i \in 1..Len(s) |-> s[i].val]

FileListTemplate(files) == [page |-> "file_list", files |-> files]

\* The answer of show_files: nothing is scanned when read_dir fails.
show_files_response(d, readable, order) ==
    FileListTemplate(IF readable THEN sort_by_name(scan(d, order)) ELSE <<>>)

\* GET /files.
show_files(r) ==
    /\ pc[r] = "idle"
    /\ req' = [req EXCEPT ![r] = [route |-> "/files"]]
    /\ \E order \in Orders(dir) :
          resp' = [resp EXCEPT ![r] = show_files_response(dir, dirReadable, order)]
    /\ pc' = [pc EXCEPT ![r] = "done"]
    /\ UNCHANGED <<cmd, child, spawns, dir, dirReadable>>

InitFiles ==
    /\ InitServer
    /\ dir \in Dirs
    /\ dirReadable \in BOOLEAN

NextFiles == show_files(1)

SpecFiles == InitFiles /\ [][NextFiles]_vars

-----------------------------------------------------------------------------
(* POST /download.                                                         *)

OutputTemplate == "downloads/%(title)s.%(ext)s"

FormatIds == {"18", "22"}

FileTypes == {"Audio Only", "Video Only", "audio only"}

\* download_args with audio extraction for everything but "Video Only": the
\* variant C7 is checked against.
download_args_not_video_only(q) ==
    IF q.file_type # "Video Only"
    THEN <<"-f", q.format_id, "-x", "--audio-format", "mp3",
           "-o", OutputTemplate, q.url>>
    ELSE <<"-f", q.format_id, "--merge-output-format", "mp4",
           "-o", OutputTemplate, q.url>>

\* The arguments download_format gives the Command.
download_args(q) ==
    IF q.file_type = "Audio Only"
    THEN <<"-f", q.format_id, "-x", "--audio-format", "mp3",
           "-o", OutputTemplate, q.url>>
    ELSE <<"-f", q.format_id, "--merge-output-format", "mp4",
           "-o", OutputTemplate, q.url>>

Redirect(to) == [page |-> "redirect", location |-> to]

Html(body) == [page |-> "html", body |-> body]

\* What Command::status() returns once the child has exited.
ExitedStatus(code, wrote) ==
    [spawned |-> TRUE, state |-> "exited", code |-> code, writing |-> wrote]

\* A child that runs, with the file it has open for writing, if any.
Running(writing) == [spawned |-> TRUE, state |-> "running", writing |-> writing]

\* download_response answering with the redirect whenever the child was
\* spawned: the variant C8 is checked against.
download_response_any_exit(status) ==
    IF status.spawned
    THEN Redirect("/files")
    ELSE Html("<h1>Download Failed</h1><a href='/'>Go Back</a>")

\* The match of download_format on the result of status().
download_response(status) ==
    IF status.spawned /\ success(status)
    THEN Redirect("/files")
    ELSE Html("<h1>Download Failed</h1><a href='/'>Go Back</a>")

\* download_format taking a process-wide lock first, so that it starts no
\* child while another request's child runs: the variant C10 is checked
\* against.
download_format_locked(r) ==
    /\ pc[r] = "idle"
    /\ \A o \in Req : pc[o] # "waiting"
    /\ \E url \in Urls, format_id \in FormatIds, file_type \in FileTypes :
          LET q == [route |-> "/download", url |-> url,
                    format_id |-> format_id, file_type |-> file_type]
          IN  /\ req' = [req EXCEPT ![r] = q]
              /\ cmd' = [cmd EXCEPT ![r] = Command(download_args(q))]
    /\ spawns' = [spawns EXCEPT ![r] = @ + 1]
    /\ child' = [child EXCEPT ![r] = Running(None)]
    /\ pc' = [pc EXCEPT ![r] = "waiting"]
    /\ UNCHANGED <<resp, dir, dirReadable>>

\* download_format up to cmd.status(): the command is built and the child is
\* started. When it cannot be started the handler answers at once; otherwise
\* it blocks until the child exits.
download_format(r) ==
    /\ pc[r] = "idle"
    /\ \E url \in Urls, format_id \in FormatIds, file_type \in FileTypes :
          LET q == [route |-> "/download", url |-> url,
                    format_id |-> format_id, file_type |-> file_type]
          IN  /\ req' = [req EXCEPT ![r] = q]
              /\ cmd' = [cmd EXCEPT ![r] = Command(download_args(q))]
    /\ spawns' = [spawns EXCEPT ![r] = @ + 1]
    /\ \/ LET e == SpawnErr("No such file or directory (os error 2)")
          IN  /\ child' = [child EXCEPT ![r] = e]
              /\ resp' = [resp EXCEPT ![r] = download_response(e)]
              /\ pc' = [pc EXCEPT ![r] = "done"]
       \/ /\ child' = [child EXCEPT ![r] = Running(None)]
          /\ pc' = [pc EXCEPT ![r] = "waiting"]
          /\ UNCHANGED resp
    /\ UNCHANGED <<dir, dirReadable>>

\* The title the tool finds for a URL.
title_of(url) == IF url = "https://example.org/t" THEN "T" ELSE "U"

\* The file the tool writes for these arguments: the -o template with the
\* media title and the extension of the container asked for.
output_name(args) ==
    title_of(args[Len(args)]) \o "."
        \o (IF contains(args, "-x") THEN "mp3" ELSE "mp4")

\* The child of a download opens its output file in downloads/, creating or
\* truncating it, whoever else has it open.
child_write(r) ==
    /\ pc[r] = "waiting"
    /\ child[r].state = "running"
    /\ child[r].writing = None
    /\ LET os == Utf8[output_name(cmd[r].args)]
       IN  /\ dir' = (os :> RegularFile(0)) @@ dir
           /\ child' = [child EXCEPT ![r] = Running(Some(os))]
    /\ UNCHANGED <<pc, req, cmd, spawns, resp, dirReadable>>

\* The child exits, status() returns and download_format answers. A child
\* that exits with 0 after writing leaves its file complete.
download_done(r) ==
    /\ pc[r] = "waiting"
    /\ child[r].state = "running"
    /\ \E code \in {0, 1} :
          LET status == ExitedStatus(code, child[r].writing)
          IN  /\ child' = [child EXCEPT ![r] = status]
              /\ resp' = [resp EXCEPT ![r] = download_response(status)]
              /\ dir' = IF code = 0 /\ child[r].writing # None
                        THEN [dir EXCEPT ![child[r].writing[1]] =
                                 RegularFile(10485760)]
                        ELSE dir
    /\ pc' = [pc EXCEPT ![r] = "done"]
    /\ UNCHANGED <<req, cmd, spawns, dirReadable>>

InitDownload ==
    /\ InitServer
    /\ dir = <<>>
    /\ dirReadable = TRUE

NextDownload ==
    \E r \in Req :
        \/ download_format(r)
        \/ child_write(r)
        \/ download_done(r)
        \/ show_files(r)

SpecDownload == InitDownload /\ [][NextDownload]_vars

-----------------------------------------------------------------------------
(* Properties of POST /analyze, checked under SpecAnalyze.                 *)

\* Request r is an analyze request that has been answered.
Analyzed(r) == pc[r] = "done" /\ req[r].route = "/analyze"

\* Request r was answered with the metadata page.
Rendered(r) == Analyzed(r) /\ resp[r].page = "analyze"

\* The "formats" array the child of request r printed (r is Rendered).
PrintedFormats(r) == child[r].stdout.formats[1]

\* C1: an analyze request whose child could not be spawned, exited non-zero
\* or printed output that does not decode is answered with the landing page
\* carrying an error message and nothing else (no title, rows or languages);
\* the metadata page is the answer exactly when the child was spawned, exited
\* with status 0 and its output decoded.
C1_AnalyzeErrorsShowNoMetadata ==
    \A r \in Req :
        Analyzed(r) =>
            LET o == child[r]
                good == o.spawned /\ o.code = 0 /\ from_str(o.stdout).ok
            IN  /\ good <=> resp[r].page = "analyze"
                /\ ~good => /\ resp[r].page = "index"
                            /\ resp[r].error # None
                            /\ DOMAIN resp[r] = {"page", "error"}

\* C1's case: the child exited non-zero although its output decodes, and the
\* answer is the landing page with the error.
C1_Witness ==
    \E r \in Req :
        /\ Analyzed(r)
        /\ child[r].spawned /\ child[r].code # 0
        /\ from_str(child[r].stdout).ok
        /\ resp[r].page = "index" /\ resp[r].error # None

\* C2: the i-th row's type label is "Video+Audio" when the i-th descriptor
\* has audio and video, "Video Only" when it has video and no audio, and
\* "Audio Only" otherwise, where a descriptor has audio (video) when its
\* acodec (vcodec) is present and is not "none".
C2_TypeLabel ==
    \A r \in Req :
        Rendered(r) =>
            \A i \in 1..Len(resp[r].formats) :
                LET j == PrintedFormats(r)[i]
                    has_audio == j.acodec # None /\ j.acodec[1] # "none"
                    has_video == j.vcodec # None /\ j.vcodec[1] # "none"
                    label == resp[r].formats[i].type_label
                IN  /\ has_audio /\ has_video => label = "Video+Audio"
                    /\ has_video /\ ~has_audio => label = "Video Only"
                    /\ ~has_video => label = "Audio Only"

\* C2's case: a descriptor with audio and no video next to one with neither
\* codec, both labelled "Audio Only".
C2_Witness ==
    \E r \in Req :
        /\ Rendered(r)
        /\ Len(resp[r].formats) = 2
        /\ PrintedFormats(r)[1].acodec = Some("mp4a")
        /\ PrintedFormats(r)[1].vcodec = Some("none")
        /\ PrintedFormats(r)[2].acodec = None
        /\ PrintedFormats(r)[2].vcodec = None
        /\ resp[r].formats[1].type_label = "Audio Only"
        /\ resp[r].formats[2].type_label = "Audio Only"

\* A size field that is missing or zero.
AbsentOrZero(o) == o = None \/ o = Some(0)

\* C3: the i-th row's size is "Unknown" when filesize and filesize_approx
\* are both absent or zero, and a formatted size (not "Unknown") in every
\* other case, such as filesize 0 with a positive filesize_approx.
C3_SizeUnknownOnlyWhenBothAbsentOrZero ==
    \A r \in Req :
        Rendered(r) =>
            \A i \in 1..Len(resp[r].formats) :
                LET j == PrintedFormats(r)[i]
                    unknown == AbsentOrZero(j.filesize)
                                   /\ AbsentOrZero(j.filesize_approx)
                IN  unknown <=> resp[r].formats[i].filesize = "Unknown"

\* C4: output that is a JSON object in which every format entry has a
\* format_id decodes, whatever other keys are missing, and the request is
\* answered with the metadata page.
C4_MissingKeysDecode ==
    \A r \in Req :
        (/\ Analyzed(r)
         /\ child[r].spawned /\ child[r].code = 0
         /\ child[r].stdout.kind = "object"
         /\ child[r].stdout.formats # None =>
                \A i \in 1..Len(child[r].stdout.formats[1]) :
                    child[r].stdout.formats[1][i].format_id # None)
        => resp[r].page = "analyze"

\* The elements of a sequence.
Range(v) == {v[i] : i \in 1..Len(v)}

\* C5: the language list holds exactly the language values present on some
\* descriptor other than "Unknown", each once, in ascending order.
C5_Languages ==
    \A r \in Req :
        Rendered(r) =>
            LET js == PrintedFormats(r)
                L == resp[r].languages
                present == {js[i].language[1] :
                               i \in {k \in 1..Len(js) : js[k].language # None}}
            IN  /\ Range(L) = present \ {"Unknown"}
                /\ \A a, b \in 1..Len(L) :
                       a < b => L[a] # L[b] /\ StrLeq(L[a], L[b])

\* C5's case: "fr" is seen before "en" and the list is <<"en", "fr">>.
C5_Witness ==
    \E r \in Req :
        /\ Rendered(r)
        /\ Len(PrintedFormats(r)) = 2
        /\ PrintedFormats(r)[1].language = Some("fr")
        /\ PrintedFormats(r)[2].language = Some("en")
        /\ resp[r].languages = <<"en", "fr">>

\* C6: the metadata page has one row per descriptor, and the i-th row is the
\* i-th descriptor's (same format id, and the language, codecs and extension
\* read from it).
C6_RowsInOrder ==
    \A r \in Req :
        Rendered(r) =>
            LET js == PrintedFormats(r)
                rows == resp[r].formats
            IN  /\ Len(rows) = Len(js)
                /\ \A i \in 1..Len(js) :
                       /\ rows[i].id = js[i].format_id[1]
                       /\ rows[i].language = unwrap_or(js[i].language, "Unknown")
                       /\ rows[i].ext = unwrap_or(js[i].ext, "")

\* C6's case: two descriptors with different ids, the first with no optional
\* key at all, and two rows with their ids in the same order.
C6_Witness ==
    \E r \in Req :
        /\ Rendered(r)
        /\ Len(PrintedFormats(r)) = 2
        /\ PrintedFormats(r)[1] =
               JsonFormat(Some("18"), None, None, None, None, None, None, None, None)
        /\ PrintedFormats(r)[2].format_id = Some("22")
        /\ resp[r].formats[1].id = "18"
        /\ resp[r].formats[2].id = "22"

-----------------------------------------------------------------------------
(* Properties of POST /download, checked under SpecDownload.               *)

\* run occurs in v as consecutive elements.
has_run(v, run) ==
    \E k \in 0..(Len(v) - Len(run)) : \A i \in 1..Len(run) : v[k + i] = run[i]

\* C7: the command of a download request is the tool with -f and the format
\* id first and -o, the fixed template and the URL last; it holds
\* -x --audio-format mp3 and no merge argument exactly when file_type is
\* "Audio Only", and --merge-output-format mp4 and no audio-extraction
\* argument for every other file_type.
C7_DownloadArgs ==
    \A r \in Req :
        req[r].route = "/download" =>
            LET a == cmd[r].args
                q == req[r]
                n == Len(a)
                audio == has_run(a, <<"-x", "--audio-format", "mp3">>)
                merge == has_run(a, <<"--merge-output-format", "mp4">>)
            IN  /\ cmd[r].program = "./yt-dlp_linux"
                /\ n >= 5
                /\ a[1] = "-f" /\ a[2] = q.format_id
                /\ a[n - 2] = "-o"
                /\ a[n - 1] = "downloads/%(title)s.%(ext)s"
                /\ a[n] = q.url
                /\ (audio /\ ~contains(a, "--merge-output-format"))
                       <=> q.file_type = "Audio Only"
                /\ q.file_type # "Audio Only" =>
                       /\ merge
                       /\ ~contains(a, "-x")
                       /\ ~contains(a, "--audio-format")

\* C7's case: file_type "audio only" is not the string "Audio Only", and the
\* command asks for the merge.
C7_Witness ==
    \E r \in Req :
        /\ req[r].route = "/download"
        /\ req[r].file_type = "audio only"
        /\ has_run(cmd[r].args, <<"--merge-output-format", "mp4">>)

\* The page of a failed download.
FailurePage == Html("<h1>Download Failed</h1><a href='/'>Go Back</a>")

\* C8: a download request starts the tool once; it is answered with the
\* redirect to /files exactly when the child was spawned and exited with
\* status 0, and with the one failure page otherwise, and it is not answered
\* before the child has exited.
C8_DownloadOutcome ==
    \A r \in Req :
        req[r].route = "/download" =>
            /\ spawns[r] = 1
            /\ pc[r] = "waiting" => resp[r] = NoResponse
            /\ pc[r] = "done" =>
                   LET ok == child[r].spawned /\ child[r].code = 0
                   IN  /\ ok <=> resp[r] = Redirect("/files")
                       /\ ~ok => resp[r] = FailurePage

\* C8's case: one download whose child could not be spawned and one whose
\* child exited non-zero, answered with the same page.
C8_Witness ==
    \E r1, r2 \in Req :
        /\ req[r1].route = "/download" /\ pc[r1] = "done"
        /\ req[r2].route = "/download" /\ pc[r2] = "done"
        /\ ~child[r1].spawned
        /\ child[r2].spawned /\ child[r2].code # 0
        /\ resp[r1] = FailurePage /\ resp[r2] = FailurePage

\* The child of request r runs.
ChildRuns(r) == pc[r] = "waiting" /\ child[r].state = "running"

\* Nothing excludes one request from another, whatever the others do: an
\* idle handler can start a download, a running child can open its output
\* file, and a file that a child has open for writing is an entry of the
\* directory that the listing keeps.
C10_NothingExcluded ==
    \A r \in Req :
        /\ pc[r] = "idle" => ENABLED download_format(r)
        /\ (ChildRuns(r) /\ child[r].writing = None) => ENABLED child_write(r)
        /\ (ChildRuns(r) /\ child[r].writing # None) =>
               /\ child[r].writing[1] \in DOMAIN dir
               /\ keeps_entry(dir, child[r].writing[1])

\* The state a handler keeps for request r.
Local(r) == <<pc[r], req[r], cmd[r], child[r], spawns[r], resp[r]>>

\* A step changes the state of one request's handler at most; the directory
\* is all that two requests share.
C10_StepsAreLocal ==
    \A r, o \in Req : (r # o /\ Local(r)' # Local(r)) => Local(o)' = Local(o)

\* C10: downloads are not serialized or excluded from one another, a listing
\* is not excluded from a download in progress and shows the file it writes,
\* and no step of a handler touches another handler's state.
C10_DownloadsNotSerialized ==
    [] C10_NothingExcluded /\ [][C10_StepsAreLocal]_vars

\* C10's case: the children of two downloads run at the same time and have
\* the same output file open.
C10_Witness ==
    \E r1, r2 \in Req :
        /\ r1 # r2
        /\ ChildRuns(r1) /\ ChildRuns(r2)
        /\ child[r1].writing # None
        /\ child[r1].writing = child[r2].writing

-----------------------------------------------------------------------------
(* Properties of GET /files, checked under SpecFiles.                      *)

\* Request r is a listing request that has been answered.
Listed(r) == pc[r] = "done" /\ req[r].route = "/files"

\* The listing is the file list page; it holds one entry for each name of
\* expected and nothing else, in ascending order of the names; it is empty
\* when the directory cannot be read.
ListingIs(r, expected) ==
    LET files == resp[r].files
    IN  /\ resp[r].page = "file_list"
        /\ dirReadable =>
               /\ Len(files) = Cardinality(expected)
               /\ {Utf8[files[i].name] : i \in 1..Len(files)} = expected
               /\ \A a, b \in 1..Len(files) :
                      a < b => /\ files[a].name # files[b].name
                               /\ StrLeq(files[a].name, files[b].name)
        /\ ~dirReadable => files = <<>>

\* C9 as stated: the listing holds one entry for each entry of the directory
\* that is a regular file whose name does not begin with ".", and no other,
\* sorted by name, and is empty when the directory cannot be read.
C9_ListsEveryVisibleFile ==
    \A r \in Req :
        Listed(r) =>
            ListingIs(r, {os \in DOMAIN dir : dir[os].is_file /\ os[1] # 46})

\* C9 as amended: the same, for the regular files whose name is valid UTF-8
\* and does not begin with ".".
C9_ListsEveryVisibleUtf8File ==
    \A r \in Req :
        Listed(r) =>
            ListingIs(r, {os \in DOMAIN dir :
                             dir[os].is_file /\ is_utf8(os) /\ os[1] # 46})

\* C9's case: regular files b.mp3, a.mp4 and one whose name is not UTF-8,
\* listed as a.mp4, b.mp3.
C9_Witness ==
    \E r \in Req :
        /\ Listed(r)
        /\ dirReadable
        /\ DOMAIN dir = {Utf8["a.mp4"], Utf8["b.mp3"], NonUtf8Name}
        /\ \A os \in DOMAIN dir : dir[os].is_file
        /\ Len(resp[r].files) = 2
        /\ resp[r].files[1].name = "a.mp4"
        /\ resp[r].files[2].name = "b.mp3"

====
